---- MODULE Spec2Model ----
(***************************************************************************)
(* Model of src/app.py: the AccessSystem class over its SQLite store       *)
(* (tables users, accessLogs, faceTemplates and the photo tables) and the  *)
(* Flask handlers that register identities, take face enrollments, ingest  *)
(* access decisions and re-expose the audit log (recent-events query,      *)
(* Dahua-style text records, JSON records).                                *)
(*                                                                         *)
(* Flask serves requests on concurrent threads; every handler opens its    *)
(* own SQLite connection.  A handler that writes is therefore modelled as  *)
(* the sequence of its accesses to shared state (store reads, clock reads, *)
(* INSERT, COMMIT), one action per access; SQLite's write lock serialises  *)
(* INSERT..COMMIT.  A handler that only reads runs one SELECT over the    *)
(* committed tables: it is an operator over the store, applied to every    *)
(* reachable state.  Timestamps are clock ticks; datetime.now() is the     *)
(* local wall clock, so a reading may equal the one before it, and may lie *)
(* before it (the clock is set back, or summer time ends).                 *)
(***************************************************************************)
EXTENDS Integers, Sequences, FiniteSets, TLC

VARIABLES
    users,       \* table users, in rowid order (committed rows)
    accessLogs,  \* table accessLogs, in rowid order (committed rows)
    employeePhotos,  \* table employeePhotos2023
    studentPhotos,   \* table studentPhotos2023
    faceTemplates,   \* table faceTemplates, in rowid order
    logSeq,      \* sqlite_sequence entry of accessLogs (AUTOINCREMENT counter)
    writeLock,   \* the thread holding SQLite's write lock, or NoThread
    th,          \* per request thread: position in the handler and its locals
    accepted,    \* number of access-decision calls answered with HTTP 200
    out          \* the response of the request that completed in the last step
                 \* (for an access-decision call, with the handler's locals)

vars == <<users, employeePhotos, studentPhotos, faceTemplates, accessLogs, logSeq, writeLock, th, accepted, out>>

----------------------------------------------------------------------------
(* Bounds of the model *)

MaxLogs == 2          \* access-decision calls admitted in one behaviour
MaxUsers == 1         \* registrations admitted in one behaviour
MaxClock == 1         \* the last tick of the wall clock
MicrosPerTick == 999600   \* microseconds between two ticks of the model clock

Threads == {1, 2}      \* request threads of the server
NoThread == 0
Abandoned == 3         \* a connection its handler left open when commit raised

----------------------------------------------------------------------------
(* Python None / SQL NULL *)

NoneInt == -1          \* None in an integer-valued position
NoneStr == "<None>"    \* None in a string-valued position

(* AccessMethod and AccessResult enum values *)
FACE == "face"
CARD == "card"
GRANTED == "granted"
DENIED == "denied"

Min(a, b) == IF a <= b THEN a ELSE b

----------------------------------------------------------------------------
(* Request payloads: JSON objects as functions from their keys *)

NoData == [k \in {} |-> TRUE]

FacePayloads ==
    { [userId |-> 1, accessGranted |-> TRUE],
      [userId |-> 2, accessGranted |-> FALSE, deviceId |-> "gate2"],
      [userId |-> 1],
      [accessGranted |-> TRUE, deviceId |-> "gate2"],
      NoData }

CardPayloads ==
    { [cardNumber |-> "C100", accessGranted |-> TRUE],
      [cardNumber |-> "UNKNOWN", accessGranted |-> FALSE],
      [cardNumber |-> "C100"],
      [accessGranted |-> FALSE],
      NoData }

RegisterPayloads ==
    { [name |-> "Alice", role |-> "employee", photoPath |-> "p1", cardNumber |-> "C100"],
      [name |-> "Bob", role |-> "Student", photoPath |-> "p2"],
      [name |-> "Mallory", role |-> "employee"],
      NoData }

\* dict.get(key, default)
Get(data, key, default) == IF key \in DOMAIN data THEN data[key] ELSE default

\* `not data`: no JSON payload, or an empty object
Falsy(data) == DOMAIN data = {}

----------------------------------------------------------------------------
(* The store: SELECTs over the committed tables *)

\* A users row.  registrationDate, the clock reading taken by registerUser, is
\* written once and consulted by no operation; the rows of the model leave it out.
NoUser == [id |-> NoneInt, name |-> NoneStr, role |-> NoneStr,
           photoPath |-> NoneStr, cardNumber |-> NoneStr]

Found(userInfo) == userInfo.id # NoneInt

\* cursor.fetchone(): the first row of the result, None when it is empty
FetchOne(rows) == IF rows = <<>> THEN NoUser ELSE rows[1]

\* SELECT ... FROM users WHERE id = ?
getUserInfo(userId) ==
    FetchOne(SelectSeq(users, LAMBDA u : u.id = userId))

\* SELECT ... FROM users WHERE cardNumber = ?   (NULL matches nothing)
getUserByCard(cardNumber) ==
    FetchOne(SelectSeq(users, LAMBDA u : u.cardNumber # NoneStr
                                          /\ u.cardNumber = cardNumber))

\* str.lower() on the role strings of the model
Lower(role) ==
    CASE role = "Student" -> "student"
      [] role = "Employee" -> "employee"
      [] OTHER -> role

\* AccessResult.GRANTED if accessGranted else AccessResult.DENIED
ResultOf(accessGranted) == IF accessGranted THEN GRANTED ELSE DENIED

\* (mutant) no write lock: any connection may write at any time
CanWriteUnlocked(lock) == TRUE

\* SQLite lets a connection write only while no other connection holds the
\* write lock
CanWrite(lock) == lock = NoThread

\* A transaction between its INSERT and its COMMIT holds the RESERVED lock,
\* which admits readers.  A connection whose COMMIT timed out keeps the PENDING
\* lock it took: until it is closed no other connection can read
CanRead(lock) == lock # Abandoned

\* AUTOINCREMENT: the rowid SQLite gives the next inserted row
NextRowId(seq) == seq + 1

\* (mutant) an append that drops a row repeating an earlier call's arguments
InsertAccessLogDedup(logs, row) ==
    IF \E i \in 1 .. Len(logs) :
          /\ logs[i].userId = row.userId
          /\ logs[i].accessMethod = row.accessMethod
          /\ logs[i].result = row.result
          /\ logs[i].deviceId = row.deviceId
    THEN logs
    ELSE Append(logs, row)

\* (mutant) a log of bounded size: an append evicts the oldest row
InsertAccessLogEvict(logs, row) ==
    IF logs = <<>> THEN <<row>> ELSE Append(Tail(logs), row)

\* INSERT INTO accessLogs ... followed by COMMIT: the row joins the table
InsertAccessLog(logs, row) == Append(logs, row)

----------------------------------------------------------------------------
(* Request threads *)

\* The locals of a handler: the payload, the looked-up user and what
\* receive*AccessResult and logAccessAttempt compute from them
Idle == [pc |-> "idle", method |-> "", data |-> NoData, userInfo |-> NoUser,
         userId |-> NoneInt, userName |-> "", result |-> "", deviceId |-> "",
         timestamp |-> NoneInt, rowid |-> NoneInt]

NoResponse == [kind |-> "none", status |-> 0, body |-> NoData]

Response(kind, status, body) == [kind |-> kind, status |-> status, body |-> body]

Init ==
    /\ users = <<>>
    /\ employeePhotos = <<>>
    /\ studentPhotos = <<>>
    /\ faceTemplates = <<>>
    /\ accessLogs = <<>>
    /\ logSeq = 0
    /\ writeLock = NoThread
    /\ th = [t \in Threads |-> Idle]
    /\ accepted = 0
    /\ out = NoResponse

\* datetime.datetime.now(): any tick may be read, whatever was read before
Now == 0 .. MaxClock

----------------------------------------------------------------------------
(* POST /api/users/register *)

\* AccessSystem.registerUser: one transaction (INSERT users, INSERT photo, COMMIT)
registerUser(name, role, photoPath, cardNumber) ==
    LET userId == Len(users) + 1
        row == [id |-> userId, name |-> name, role |-> role,
                photoPath |-> photoPath, cardNumber |-> cardNumber]
        photo == [userId |-> userId, photoPath |-> photoPath]
    IN  /\ users' = Append(users, row)
        /\ employeePhotos' = IF Lower(role) = "employee"
                             THEN Append(employeePhotos, photo)
                             ELSE employeePhotos
        /\ studentPhotos' = IF Lower(role) # "employee" /\ Lower(role) = "student"
                            THEN Append(studentPhotos, photo)
                            ELSE studentPhotos
        /\ out' = Response("register", 201, [userId |-> userId])

RegisterRejected(data) ==
    \/ Falsy(data)
    \/ \E field \in {"name", "role", "photoPath"} : field \notin DOMAIN data

\* Registrations validated and not yet committed
Registering == {t \in Threads : th[t].pc = "register"}

\* The handler up to conn.commit(): INSERT INTO users takes the write lock, and
\* the rows of the transaction are not in the committed tables yet.
\* (registrationDate, read from the clock before that, is kept in no row of the
\* model.)
register_user(t, data) ==
    /\ th[t].pc = "idle"
    /\ IF RegisterRejected(data)
       THEN /\ out' = Response("register", 400, [error |-> "validation"])
            /\ UNCHANGED <<writeLock, th>>
       ELSE /\ Len(users) + Cardinality(Registering) < MaxUsers
            /\ IF CanWrite(writeLock)
               THEN /\ writeLock' = t
                    /\ th' = [th EXCEPT ![t] = [Idle EXCEPT !.pc = "register",
                                                            !.method = "register",
                                                            !.data = data]]
                    /\ out' = NoResponse
               ELSE \* sqlite3.OperationalError: database is locked
                    /\ out' = Response("register", 500, [error |-> "locked"])
                    /\ UNCHANGED <<writeLock, th>>
    /\ UNCHANGED <<users, employeePhotos, studentPhotos, faceTemplates,
                   accessLogs, logSeq, accepted>>

\* registerUser: conn.commit(), and the handler's response
RegisterCommit(t) ==
    /\ th[t].pc = "register"
    /\ writeLock = t
    /\ registerUser(th[t].data.name, th[t].data.role, th[t].data.photoPath,
                    Get(th[t].data, "cardNumber", NoneStr))
    /\ writeLock' = NoThread
    /\ th' = [th EXCEPT ![t] = Idle]
    /\ UNCHANGED <<faceTemplates, accessLogs, logSeq, accepted>>

\* conn.commit() finds a reader of another connection (a GET handler between
\* its SELECT and its fetch) for longer than the busy timeout: it raises
\* sqlite3.OperationalError, the handler answers 500, and the connection, which
\* no finally clause closes, keeps its lock and its uncommitted rows
CommitLocked(t) ==
    /\ writeLock = t
    /\ writeLock' = Abandoned
    /\ th' = [th EXCEPT ![t] = Idle]
    /\ out' = Response(th[t].method, 500, [error |-> "locked"])
    /\ UNCHANGED <<users, employeePhotos, studentPhotos, faceTemplates,
                   accessLogs, logSeq, accepted>>

RegisterCommitLocked(t) == th[t].pc = "register" /\ CommitLocked(t)

\* The garbage collector finalizes the abandoned connection: its transaction
\* is rolled back and its lock released
Finalize ==
    /\ writeLock = Abandoned
    /\ writeLock' = NoThread
    /\ out' = NoResponse
    /\ UNCHANGED <<users, employeePhotos, studentPhotos, faceTemplates,
                   accessLogs, logSeq, th, accepted>>

----------------------------------------------------------------------------
(* POST /api/access/face and POST /api/access/card *)

\* (mutant) a validation failure answered as a success
ValidationFailureOk(kind) == Response(kind, 200, [error |-> "validation"])

\* jsonify({"error": "Missing required fields: ..."}), 400
ValidationFailure(kind) == Response(kind, 400, [error |-> "validation"])

\* Access-decision calls past their validation
Logging == {t \in Threads : th[t].method \in {FACE, CARD}}

Admit == Len(accessLogs) + Cardinality(Logging) < MaxLogs

FaceRejected(data) ==
    \/ Falsy(data)
    \/ "userId" \notin DOMAIN data
    \/ "accessGranted" \notin DOMAIN data

CardRejected(data) ==
    \/ Falsy(data)
    \/ "cardNumber" \notin DOMAIN data
    \/ "accessGranted" \notin DOMAIN data

\* (mutant) a face call that logs no identity reference when the id is unknown
receiveFaceAccessResultAbsent(data, userId, accessGranted, deviceId) ==
    LET userInfo == getUserInfo(userId)
    IN  [pc |-> "log", method |-> FACE, data |-> data, userInfo |-> userInfo,
         userId |-> IF Found(userInfo) THEN userId ELSE NoneInt,
         userName |-> IF Found(userInfo) THEN userInfo.name ELSE "Unknown User",
         result |-> ResultOf(accessGranted),
         deviceId |-> deviceId, timestamp |-> NoneInt, rowid |-> NoneInt]

\* receiveFaceAccessResult up to the call of logAccessAttempt
receiveFaceAccessResult(data, userId, accessGranted, deviceId) ==
    LET userInfo == getUserInfo(userId)
    IN  [pc |-> "log", method |-> FACE, data |-> data, userInfo |-> userInfo,
         userId |-> userId,
         userName |-> IF Found(userInfo) THEN userInfo.name ELSE "Unknown User",
         result |-> ResultOf(accessGranted),
         deviceId |-> deviceId, timestamp |-> NoneInt, rowid |-> NoneInt]

\* (mutant) a card call that logs the placeholder id 0 for an unknown card
receiveCardAccessResultPlaceholder(data, cardNumber, accessGranted, deviceId) ==
    LET userInfo == getUserByCard(cardNumber)
    IN  [pc |-> "log", method |-> CARD, data |-> data, userInfo |-> userInfo,
         userId |-> IF Found(userInfo) THEN userInfo.id ELSE 0,
         userName |-> IF Found(userInfo) THEN userInfo.name ELSE "Unknown User",
         result |-> ResultOf(accessGranted),
         deviceId |-> deviceId, timestamp |-> NoneInt, rowid |-> NoneInt]

\* receiveCardAccessResult up to the call of logAccessAttempt
receiveCardAccessResult(data, cardNumber, accessGranted, deviceId) ==
    LET userInfo == getUserByCard(cardNumber)
    IN  [pc |-> "log", method |-> CARD, data |-> data, userInfo |-> userInfo,
         userId |-> IF Found(userInfo) THEN userInfo.id ELSE NoneInt,
         userName |-> IF Found(userInfo) THEN userInfo.name ELSE "Unknown User",
         result |-> ResultOf(accessGranted),
         deviceId |-> deviceId, timestamp |-> NoneInt, rowid |-> NoneInt]

submit_face_access(t, data) ==
    /\ th[t].pc = "idle"
    /\ IF FaceRejected(data)
       THEN /\ out' = ValidationFailure(FACE)
            /\ th' = th
       ELSE IF ~CanRead(writeLock)
       THEN \* getUserInfo raises sqlite3.OperationalError: database is locked
            /\ out' = Response(FACE, 500, [error |-> "locked"])
            /\ th' = th
       ELSE /\ Admit
            /\ th' = [th EXCEPT ![t] = receiveFaceAccessResult(
                          data, data.userId, data.accessGranted,
                          Get(data, "deviceId", "faceScanner01"))]
            /\ out' = NoResponse
    /\ UNCHANGED <<users, employeePhotos, studentPhotos, faceTemplates, accessLogs, logSeq,
                   writeLock, accepted>>

submit_card_access(t, data) ==
    /\ th[t].pc = "idle"
    /\ IF CardRejected(data)
       THEN /\ out' = ValidationFailure(CARD)
            /\ th' = th
       ELSE IF ~CanRead(writeLock)
       THEN \* getUserByCard raises sqlite3.OperationalError: database is locked
            /\ out' = Response(CARD, 500, [error |-> "locked"])
            /\ th' = th
       ELSE /\ Admit
            /\ th' = [th EXCEPT ![t] = receiveCardAccessResult(
                          data, data.cardNumber, data.accessGranted,
                          Get(data, "deviceId", "cardReader01"))]
            /\ out' = NoResponse
    /\ UNCHANGED <<users, employeePhotos, studentPhotos, faceTemplates, accessLogs, logSeq,
                   writeLock, accepted>>

\* logAccessAttempt: timestamp = datetime.datetime.now().isoformat()
LogTimestamp(t) ==
    /\ th[t].pc = "log"
    /\ \E now \in Now :
         /\ th' = [th EXCEPT ![t].pc = "insert", ![t].timestamp = now]
    /\ out' = NoResponse
    /\ UNCHANGED <<users, employeePhotos, studentPhotos, faceTemplates, accessLogs, logSeq,
                   writeLock, accepted>>

\* logAccessAttempt: cursor.execute(INSERT ...) takes the write lock and the rowid
LogInsert(t) ==
    /\ th[t].pc = "insert"
    /\ CanWrite(writeLock)
    /\ writeLock' = t
    /\ th' = [th EXCEPT ![t].pc = "commit", ![t].rowid = NextRowId(logSeq)]
    /\ out' = NoResponse
    /\ UNCHANGED <<users, employeePhotos, studentPhotos, faceTemplates, accessLogs, logSeq,
                   accepted>>

\* logAccessAttempt: the INSERT finds the store locked until the busy timeout
\* expires; sqlite3.OperationalError reaches the handler's except clause
LogInsertLocked(t) ==
    /\ th[t].pc = "insert"
    /\ ~CanWrite(writeLock)
    /\ th' = [th EXCEPT ![t] = Idle]
    /\ out' = Response(th[t].method, 500, [error |-> "locked"])
    /\ UNCHANGED <<users, employeePhotos, studentPhotos, faceTemplates, accessLogs, logSeq,
                   writeLock, accepted>>

LogRow(l) == [id |-> l.rowid, userId |-> l.userId, accessMethod |-> l.method,
              result |-> l.result, timestamp |-> l.timestamp,
              deviceId |-> l.deviceId]

\* logAccessAttempt: conn.commit()
LogCommit(t) ==
    /\ th[t].pc = "commit"
    /\ writeLock = t
    /\ accessLogs' = InsertAccessLog(accessLogs, LogRow(th[t]))
    /\ logSeq' = th[t].rowid
    /\ writeLock' = NoThread
    /\ th' = [th EXCEPT ![t].pc = "respond"]
    /\ out' = NoResponse
    /\ UNCHANGED <<users, employeePhotos, studentPhotos, faceTemplates, accepted>>

\* logAccessAttempt: conn.commit() times out
LogCommitLocked(t) == th[t].pc = "commit" /\ CommitLocked(t)

\* The dict receive*AccessResult returns: its timestamp is a new clock reading
AccessResponse(l, now) ==
    IF l.method = FACE
    THEN [userId |-> l.userId, userName |-> l.userName, accessMethod |-> l.method,
          result |-> l.result, timestamp |-> now, deviceId |-> l.deviceId]
    ELSE [userId |-> l.userId, userName |-> l.userName,
          cardNumber |-> l.data.cardNumber, accessMethod |-> l.method,
          result |-> l.result, timestamp |-> now, deviceId |-> l.deviceId]

Respond(t) ==
    /\ th[t].pc = "respond"
    /\ \E now \in Now :
         /\ out' = [kind |-> th[t].method, status |-> 200,
                    body |-> AccessResponse(th[t], now), call |-> th[t]]
    /\ th' = [th EXCEPT ![t] = Idle]
    /\ accepted' = accepted + 1
    /\ UNCHANGED <<users, employeePhotos, studentPhotos, faceTemplates, accessLogs, logSeq,
                   writeLock>>

----------------------------------------------------------------------------

----------------------------------------------------------------------------
(* SELECT ... FROM accessLogs al LEFT JOIN users u ON al.userId = u.id *)

\* (mutant) a join that fills the name of an unmatched row with the sentinel
\* of the ingestion responses
JoinUserUnknown(userId) ==
    IF Found(getUserInfo(userId)) THEN getUserInfo(userId)
    ELSE [NoUser EXCEPT !.name = "Unknown User"]

\* LEFT JOIN users u ON al.userId = u.id: the users row, all NULL when none matches
JoinUser(userId) == getUserInfo(userId)

\* Index of the first row of s that carries the greatest timestamp
RECURSIVE FirstMax(_, _, _)
FirstMax(s, i, best) ==
    IF i > Len(s) THEN best
    ELSE FirstMax(s, i + 1, IF s[i].timestamp > s[best].timestamp THEN i ELSE best)

Remove(s, i) == SubSeq(s, 1, i - 1) \o SubSeq(s, i + 1, Len(s))

\* ORDER BY al.timestamp DESC.  SQL leaves the order of rows with equal
\* timestamps open; SQLite's sorter keeps them in scan (rowid) order.
RECURSIVE OrderByTimestampDesc(_)
OrderByTimestampDesc(rows) ==
    IF rows = <<>> THEN <<>>
    ELSE LET i == FirstMax(rows, 1, 1)
         IN  <<rows[i]>> \o OrderByTimestampDesc(Remove(rows, i))

\* LIMIT ?: a negative limit is no limit
Limit(rows, n) == IF n < 0 THEN rows ELSE SubSeq(rows, 1, Min(n, Len(rows)))

\* AccessSystem.getAccessLogs
getAccessLogs(limit) ==
    LET rows == Limit(OrderByTimestampDesc(accessLogs), limit)
    IN  [i \in 1 .. Len(rows) |->
            [id |-> rows[i].id, userId |-> rows[i].userId,
             userName |-> JoinUser(rows[i].userId).name,
             accessMethod |-> rows[i].accessMethod, result |-> rows[i].result,
             timestamp |-> rows[i].timestamp, deviceId |-> rows[i].deviceId]]

\* GET /api/access/logs: the response to the query string args
get_access_logs(args) ==
    IF ~CanRead(writeLock)
    THEN \* sqlite3.OperationalError: database is locked
         Response("logs", 500, [error |-> "locked"])
    ELSE LET logs == getAccessLogs(Get(args, "limit", 100))
         IN  Response("logs", 200, [logs |-> logs, count |-> Len(logs)])

----------------------------------------------------------------------------
(* Dahua-style access records: GET /cgi-bin/recordFinder.cgi (text) and      *)
(* GET /api/access/offline-records (JSON)                                    *)

\* Values of a formatted record, tagged with their Python type
IntV(n) == [t |-> "int", n |-> n, s |-> "", b |-> FALSE]
StrV(str) == [t |-> "str", n |-> 0, s |-> str, b |-> FALSE]
BoolV(b) == [t |-> "bool", n |-> 0, s |-> "", b |-> b]
FloatV(str) == [t |-> "float", n |-> 0, s |-> str, b |-> FALSE]
NullV == [t |-> "null", n |-> 0, s |-> "", b |-> FALSE]

\* CAST(strftime('%s', al.timestamp) as INTEGER): SQLite parses the timestamp
\* to milliseconds, rounding the microseconds to the nearest, and strftime
\* takes the whole seconds of that
CreateTimeOf(timestamp) == ((timestamp * MicrosPerTick + 500) \div 1000) \div 1000

\* (mutant) the status flag inverted
StatusOfInverted(result) == IF result = "granted" THEN 0 ELSE 1

\* CASE WHEN al.result = 'granted' THEN 1 ELSE 0 END
StatusOf(result) == IF result = "granted" THEN 1 ELSE 0

\* CASE WHEN al.accessMethod = 'face' THEN 15 WHEN ... = 'card' THEN 1 ELSE 1 END
MethodOf(accessMethod) ==
    CASE accessMethod = "face" -> 15
      [] accessMethod = "card" -> 1
      [] OTHER -> 1

\* "ErrorCode": 0 if status == 1 else 1
ErrorCodeOf(status) == IF status = 1 THEN 0 ELSE 1

\* `x if x else default` on a nullable string column
OrDefault(x, default) == IF x = NoneStr \/ x = "" THEN default ELSE x

\* One row of the SELECT: the columns of accessLogs and of the joined user
SelectRecord(al) ==
    LET u == JoinUser(al.userId)
    IN  [RecNo |-> al.id, CreateTime |-> CreateTimeOf(al.timestamp),
         CardNo |-> u.cardNumber, CardName |-> u.name, UserID |-> u.name,
         Type |-> "Entry", Status |-> StatusOf(al.result),
         Method |-> MethodOf(al.accessMethod), Door |-> 1,
         ReaderID |-> al.deviceId]

\* The keys of a formatted record, in the order the dict is built
Fields == <<"RecNo", "CreateTime", "CardNo", "CardName", "CardType", "UserID",
            "Type", "Status", "Method", "Door", "ReaderID", "ErrorCode", "URL",
            "RecordURL", "IsOverTemperature", "TemperatureUnit",
            "CurrentTemperature", "CitizenIDResult">>

\* The dict built from one row, the same in both endpoints
FormatRecord(r) ==
    [RecNo |-> IntV(r.RecNo),
     CreateTime |-> IntV(r.CreateTime),
     CardNo |-> StrV(OrDefault(r.CardNo, "")),
     CardName |-> StrV(OrDefault(r.CardName, "Unknown")),
     CardType |-> IntV(0),
     UserID |-> StrV(OrDefault(r.UserID, "Unknown")),
     Type |-> StrV(r.Type),
     Status |-> IntV(r.Status),
     Method |-> IntV(r.Method),
     Door |-> IntV(r.Door),
     ReaderID |-> StrV(r.ReaderID),
     ErrorCode |-> IntV(ErrorCodeOf(r.Status)),
     URL |-> StrV(""),
     RecordURL |-> StrV(""),
     IsOverTemperature |-> BoolV(FALSE),
     TemperatureUnit |-> IntV(0),
     CurrentTemperature |-> FloatV("36.5"),
     CitizenIDResult |-> BoolV(FALSE)]

\* WHERE clause of the text endpoint.  A query parameter that is absent (or
\* empty) is falsy.
WhereText(args, timestamp) ==
    LET startTime == Get(args, "StartTime", NoneInt)
        endTime == Get(args, "EndTime", NoneInt)
    IN  IF startTime # NoneInt /\ endTime # NoneInt
        THEN startTime <= timestamp /\ timestamp <= endTime
        ELSE IF startTime # NoneInt THEN timestamp >= startTime
        ELSE IF endTime # NoneInt THEN timestamp <= endTime
        ELSE TRUE

\* WHERE clause of the JSON endpoint
WhereJson(args, timestamp) ==
    LET startTime == Get(args, "StartTime", NoneInt)
        endTime == Get(args, "EndTime", NoneInt)
    IN  IF startTime # NoneInt /\ endTime # NoneInt
        THEN startTime <= timestamp /\ timestamp <= endTime
        ELSE TRUE

\* SELECT ... WHERE {whereClause} ORDER BY al.timestamp DESC LIMIT ?
\* (matching: the rows of accessLogs that satisfy the WHERE clause)
SelectRecords(matching, count) ==
    LET rows == Limit(OrderByTimestampDesc(matching), count)
    IN  [i \in 1 .. Len(rows) |-> SelectRecord(rows[i])]

\* str(value) of the text encoding
RenderText(v) ==
    CASE v.t = "bool" -> IF v.b THEN "true" ELSE "false"
      [] v.t = "int" -> ToString(v.n)
      [] v.t = "float" -> v.s
      [] OTHER -> v.s

\* The lines records[i].key=value of one formatted record (i counts from 0)
RecordLines(i, rec) ==
    LET kept == SelectSeq(Fields, LAMBDA key : rec[key] # NullV)
    IN  [j \in 1 .. Len(kept) |->
            [i |-> i, key |-> kept[j], value |-> RenderText(rec[kept[j]])]]

RECURSIVE ResponseLines(_, _)
ResponseLines(formattedRecords, i) ==
    IF i > Len(formattedRecords) THEN <<>>
    ELSE RecordLines(i - 1, formattedRecords[i])
         \o ResponseLines(formattedRecords, i + 1)

\* GET /cgi-bin/recordFinder.cgi: the response to the query string args
getOfflineAccessRecords(args) ==
    IF Get(args, "action", "") # "find"
    THEN Response("text", 400, [error |-> "action=find"])
    ELSE IF Get(args, "name", "") # "AccessControlCardRec"
    THEN Response("text", 400, [error |-> "name=AccessControlCardRec"])
    ELSE IF ~CanRead(writeLock) THEN Response("text", 500, [error |-> "locked"])
    ELSE LET matching == SelectSeq(accessLogs, LAMBDA al : WhereText(args, al.timestamp))
             records == SelectRecords(matching, Get(args, "count", 1024))
             formattedRecords == [i \in 1 .. Len(records) |-> FormatRecord(records[i])]
         IN  Response("text", 200,
                      [totalCount |-> Len(formattedRecords),
                       found |-> Len(formattedRecords),
                       lines |-> ResponseLines(formattedRecords, 1)])

\* GET /api/access/offline-records: the response to the query string args
getOfflineAccessRecordsJson(args) ==
    IF ~CanRead(writeLock) THEN Response("json", 500, [error |-> "locked"])
    ELSE
    LET matching == SelectSeq(accessLogs, LAMBDA al : WhereJson(args, al.timestamp))
        records == SelectRecords(matching, Get(args, "Count", 1024))
        formatted_records == [i \in 1 .. Len(records) |-> FormatRecord(records[i])]
    IN  Response("json", 200,
                 [totalCount |-> Len(formatted_records),
                  found |-> Len(formatted_records),
                  records |-> formatted_records])

----------------------------------------------------------------------------
(* Face enrollment: POST /cgi-bin/FaceInfoManager.cgi (stores the templates) *)
(* and POST /api/face/enroll (validates and prints, stores nothing)          *)

MaxFaceTemplates == 20   \* if len(faceTemplates) > 20
MaxPhotos == 5           \* if len(photos) > 5

\* `def addFaceTemplate():` in the body of class AccessSystem declares no
\* parameter, not even self
addFaceTemplateParams == 0

\* system.addFaceTemplate(): a call through the instance passes the instance
\* as the first positional argument
BoundCallArgs == 1

\* A JSON list of n template strings, and one of n photo strings
TemplateList(n) == [i \in 1 .. n |-> "t" \o ToString(i)]
PhotoList(n) == [i \in 1 .. n |-> "p" \o ToString(i)]

\* Enrollment payloads: userId is a JSON number, string or null
EnrollPayloads ==
    { NoData,
      [userId |-> IntV(1)],
      [userName |-> "Alice"],
      [userId |-> IntV(1), userName |-> "Alice"],
      [userId |-> StrV("1"), userName |-> "Alice",
       faceTemplates |-> TemplateList(2), photos |-> PhotoList(1)],
      [userId |-> IntV(1), userName |-> "Alice",
       faceTemplates |-> TemplateList(1), photos |-> PhotoList(2)],
      [userId |-> IntV(1), userName |-> "Alice",
       faceTemplates |-> TemplateList(MaxFaceTemplates),
       photos |-> PhotoList(MaxPhotos)],
      [userId |-> IntV(1), userName |-> "Alice",
       faceTemplates |-> TemplateList(MaxFaceTemplates + 1)],
      [userId |-> IntV(1), userName |-> "Alice",
       faceTemplates |-> TemplateList(2), photos |-> PhotoList(MaxPhotos + 1)],
      [userId |-> IntV(7), userName |-> "Nobody"],
      [userId |-> IntV(7), userName |-> "Nobody",
       faceTemplates |-> TemplateList(MaxFaceTemplates + 1)],
      [userId |-> StrV("abc"), userName |-> "Alice"],
      [userId |-> NullV, userName |-> "Alice"] }

EnrollArgs == { [action |-> "add"], [action |-> "remove"], NoData }

\* int(userId): the number itself, the number a string of digits denotes,
\* ValueError for any other string, TypeError for None
ParseInt(v) ==
    CASE v.t = "int" -> [raised |-> "", n |-> v.n]
      [] v.t = "str" /\ v.s = "1" -> [raised |-> "", n |-> 1]
      [] v.t = "str" /\ v.s = "7" -> [raised |-> "", n |-> 7]
      [] v.t = "str" -> [raised |-> "ValueError", n |-> NoneInt]
      [] OTHER -> [raised |-> "TypeError", n |-> NoneInt]

EnrollError(status, error) == Response("enroll", status, [error |-> error])

\* addFaceTemplate from its first line to its limit checks: the payload, the
\* required fields, int(userId), the lookup of the user on a connection of
\* its own, the two limits.  The response of the return or except clause it
\* reaches, NoResponse when it reaches none and goes on to store the templates
addFaceTemplateChecks(data) ==
    IF Falsy(data) THEN EnrollError(400, "No JSON data provided")
    ELSE IF "userId" \notin DOMAIN data \/ "userName" \notin DOMAIN data
    THEN EnrollError(400, "Missing required field")
    ELSE LET templates == Get(data, "faceTemplates", <<>>)
             photos == Get(data, "photos", <<>>)
             id == ParseInt(data.userId)
         IN  IF id.raised = "ValueError"
             THEN EnrollError(400, "Invalid userId format")
             ELSE IF id.raised # "" THEN EnrollError(500, id.raised)
             ELSE IF ~CanRead(writeLock) THEN EnrollError(500, "locked")
             ELSE IF ~Found(getUserInfo(id.n)) THEN EnrollError(404, "not found")
             ELSE IF Len(templates) > MaxFaceTemplates
             THEN EnrollError(400, "Maximum 20 face templates allowed")
             ELSE IF Len(photos) > MaxPhotos
             THEN EnrollError(400, "Maximum 5 photos allowed")
             ELSE NoResponse

\* The faceTemplates rows one enrollment inserts: row i pairs faceTemplates[i]
\* with photos[i], or with "" when there is no such photo
TemplateRows(userId, userName, templates, photos, enrollmentDate) ==
    [i \in 1 .. Len(templates) |->
        [id |-> Len(faceTemplates) + i, userId |-> userId, userName |-> userName,
         faceTemplate |-> templates[i],
         photoData |-> IF i <= Len(photos) THEN photos[i] ELSE "",
         enrollmentDate |-> enrollmentDate]]

\* The answer of addFaceTemplate after its commit
addFaceTemplateStored(data, enrollmentDate) ==
    Response("enroll", 200,
             [userId |-> data.userId, userName |-> data.userName,
              templatesCount |-> Len(Get(data, "faceTemplates", <<>>)),
              photosCount |-> Len(Get(data, "photos", <<>>)),
              enrollmentDate |-> enrollmentDate])

\* addFaceTemplate reads the clock, connects and runs its INSERTs: the first
\* takes the write lock, or raises when the busy timeout expires with the
\* lock held by another connection.  With no template there is no INSERT,
\* the COMMIT has nothing to do and the request is answered.
addFaceTemplateInsert(t) ==
    \E now \in Now :
        IF Get(th[t].data, "faceTemplates", <<>>) = <<>>
        THEN /\ out' = addFaceTemplateStored(th[t].data, now)
             /\ th' = [th EXCEPT ![t] = Idle]
             /\ UNCHANGED <<faceTemplates, writeLock>>
        ELSE IF CanWrite(writeLock)
        THEN /\ writeLock' = t
             /\ th' = [th EXCEPT ![t].pc = "enrollCommit", ![t].timestamp = now]
             /\ out' = NoResponse
             /\ UNCHANGED faceTemplates
        ELSE /\ out' = EnrollError(500, "locked")
             /\ th' = [th EXCEPT ![t] = Idle]
             /\ UNCHANGED <<faceTemplates, writeLock>>

\* conn.commit() and conn.close() of addFaceTemplate: the rows become
\* visible, the lock is released and the request is answered
addFaceTemplateCommit(t) ==
    /\ writeLock = t
    /\ faceTemplates' = faceTemplates \o
           TemplateRows(th[t].userId, th[t].data.userName,
                        Get(th[t].data, "faceTemplates", <<>>),
                        Get(th[t].data, "photos", <<>>), th[t].timestamp)
    /\ writeLock' = NoThread
    /\ th' = [th EXCEPT ![t] = Idle]
    /\ out' = addFaceTemplateStored(th[t].data, th[t].timestamp)

\* The next step of thread t inside the body of addFaceTemplate, after its
\* checks: the INSERTs, then the COMMIT, which stores the rows or times out
\* like any other commit and abandons its connection with the lock held
addFaceTemplate(t) ==
    IF th[t].pc = "enroll"
    THEN addFaceTemplateInsert(t)
    ELSE /\ th[t].pc = "enrollCommit"
         /\ addFaceTemplateCommit(t) \/ CommitLocked(t)

\* The enrollment requests served in a behaviour: no payload, a valid
\* enrollment of identity 1, and one with too many templates
EnrollRequests ==
    { NoData,
      [userId |-> IntV(1), userName |-> "Alice",
       faceTemplates |-> TemplateList(1), photos |-> PhotoList(2)],
      [userId |-> IntV(1), userName |-> "Alice",
       faceTemplates |-> TemplateList(MaxFaceTemplates + 1)] }

\* What manageFaceInfo answers at once to the query string args and the
\* payload data, NoResponse when addFaceTemplate passes its checks and goes on
\* to store.  The call system.addFaceTemplate() raises TypeError before the
\* body of addFaceTemplate runs when it passes more positional arguments than
\* the function declares; manageFaceInfo's except clause answers it with
\* status 500.
manageFaceInfoResult(args, data) ==
    IF Get(args, "action", NoneStr) = "add"
    THEN IF BoundCallArgs > addFaceTemplateParams
         THEN EnrollError(500, "TypeError")
         ELSE addFaceTemplateChecks(data)
    ELSE EnrollError(400, "Unsupported action")

\* POST /cgi-bin/FaceInfoManager.cgi on thread t: the request with its
\* immediate answer, or the next step of the body of addFaceTemplate it
\* entered
manageFaceInfo(t) ==
    /\ IF th[t].pc = "idle"
       THEN \E args \in EnrollArgs, data \in EnrollRequests :
              LET r == manageFaceInfoResult(args, data)
              IN  /\ out' = r
                  /\ th' = IF r = NoResponse
                           THEN [th EXCEPT ![t] =
                                    [Idle EXCEPT !.pc = "enroll",
                                                 !.method = "enroll",
                                                 !.data = data,
                                                 !.userId = ParseInt(data.userId).n]]
                           ELSE th
                  /\ UNCHANGED <<faceTemplates, writeLock>>
       ELSE addFaceTemplate(t)
    /\ UNCHANGED <<users, employeePhotos, studentPhotos, accessLogs, logSeq,
                   accepted>>

\* POST /api/face/enroll: the response to the payload data
enrollFaceJson(data) ==
    IF Falsy(data)
    THEN Response("enroll", 400, [error |-> "No JSON data provided"])
    ELSE IF "userId" \notin DOMAIN data \/ "userName" \notin DOMAIN data
    THEN Response("enroll", 400, [error |-> "Missing required field"])
    ELSE LET faceTemplatesGiven == Get(data, "faceTemplates", <<>>)
             photos == Get(data, "photos", <<>>)
             id == ParseInt(data.userId)
         IN  IF id.raised = "ValueError"
             THEN Response("enroll", 400, [error |-> "Invalid userId format"])
             ELSE IF id.raised # ""
             THEN Response("enroll", 500, [error |-> id.raised])
             ELSE IF ~CanRead(writeLock)
             THEN Response("enroll", 500, [error |-> "locked"])
             ELSE IF ~Found(getUserInfo(id.n))
             THEN Response("enroll", 404, [error |-> "not found"])
             ELSE IF Len(faceTemplatesGiven) > MaxFaceTemplates
             THEN Response("enroll", 400,
                           [error |-> "Maximum 20 face templates allowed"])
             ELSE IF Len(photos) > MaxPhotos
             THEN Response("enroll", 400, [error |-> "Maximum 5 photos allowed"])
             ELSE Response("enroll", 200,
                      [userId |-> data.userId, userName |-> data.userName,
                       templatesCount |-> Len(faceTemplatesGiven),
                       photosCount |-> Len(photos)])

----------------------------------------------------------------------------
(* The handlers that write are the actions of the model.  The handlers that  *)
(* only read (one SELECT over the committed tables) are the operators above: *)
(* they are applied to the store of every reachable state.                   *)

\* A request is served by the first idle thread of the pool
FirstIdle(pool) == {t \in pool : th[t].pc = "idle"
                                 /\ \A u \in pool : th[u].pc = "idle" => t <= u}

Serve(pool, faces, cards) ==
    \/ \E t \in FirstIdle(pool), data \in RegisterPayloads : register_user(t, data)
    \/ \E t \in pool : RegisterCommit(t)
    \/ \E t \in pool : RegisterCommitLocked(t)
    \/ \E t \in pool : LogCommitLocked(t)
    \/ Finalize
    \/ \E t \in FirstIdle(pool), data \in faces : submit_face_access(t, data)
    \/ \E t \in FirstIdle(pool), data \in cards : submit_card_access(t, data)
    \/ \E t \in pool : LogTimestamp(t)
    \/ \E t \in pool : LogInsert(t)
    \/ \E t \in pool : LogCommit(t)
    \/ \E t \in pool : Respond(t)

\* One access-decision call at a time, beside registrations and queries
Next == Serve({1}, FacePayloads, CardPayloads)

Spec == Init /\ [][Next]_vars

\* The same, beside enrollment requests
NextEnroll ==
    \/ Serve({1}, FacePayloads, CardPayloads)
    \/ \E t \in {1} : manageFaceInfo(t)

SpecEnroll == Init /\ [][NextEnroll]_vars

\* Two access-decision calls whose steps interleave
ConcurrentFaces == { [userId |-> 1, accessGranted |-> TRUE], [userId |-> 1] }
ConcurrentCards == { [cardNumber |-> "C100", accessGranted |-> FALSE], NoData }

NextConcurrent ==
    \/ Serve(Threads, ConcurrentFaces, ConcurrentCards)
    \/ \E t \in Threads : LogInsertLocked(t)

SpecConcurrent == Init /\ [][NextConcurrent]_vars

----------------------------------------------------------------------------
(* Query strings the read handlers are applied to *)

LogsArgs == { NoData, [limit |-> -1], [limit |-> 0], [limit |-> 1], [limit |-> 2] }

Find == [action |-> "find", name |-> "AccessControlCardRec"]

With(args, key, value) ==
    [k \in DOMAIN args \cup {key} |-> IF k = key THEN value ELSE args[k]]

\* Time ranges: none, open-ended, closed, a single instant, inverted
Ranges(args) ==
    { args,
      With(args, "StartTime", 1),
      With(args, "EndTime", 0),
      With(With(args, "StartTime", 0), "EndTime", 1),
      With(With(args, "StartTime", 1), "EndTime", 1),
      With(With(args, "StartTime", 1), "EndTime", 0) }


\* The lines records[i].* of a text response, in the order they were rendered
LinesOf(lines, i) == SelectSeq(lines, LAMBDA line : line.i = i)

\* The values rendered for one key among the lines of a record (empty: no line)
LineValues(recLines, key) ==
    {recLines[j].value : j \in {j \in 1 .. Len(recLines) : recLines[j].key = key}}

LineCount(recLines, key) ==
    Cardinality({j \in 1 .. Len(recLines) : recLines[j].key = key})

Range(f) == {f[x] : x \in DOMAIN f}

\* The store can be read: the queries of this state succeed
Readable == CanRead(writeLock)

AccessOk == out.status = 200 /\ out.kind \in {FACE, CARD}

----------------------------------------------------------------------------
(* C1: every accepted access-decision call appends exactly one audit entry, *)
(* repeated identical calls included: the audit log holds as many entries   *)
(* as calls were accepted (the calls that have committed their entry and    *)
(* not yet answered counted with them).                                     *)
C1_OneEntryPerAcceptedCall ==
    Len(accessLogs) = accepted + Cardinality({t \in Threads : th[t].pc = "respond"})

\* Two accepted calls with identical arguments left two entries
C1_RepeatedCallWitness ==
    /\ accepted = 2
    /\ Len(accessLogs) = 2
    /\ accessLogs[1].userId = accessLogs[2].userId
    /\ accessLogs[1].accessMethod = accessLogs[2].accessMethod
    /\ accessLogs[1].result = accessLogs[2].result
    /\ accessLogs[1].deviceId = accessLogs[2].deviceId
    /\ accessLogs[1].timestamp = accessLogs[2].timestamp

(* C2: the ids of the audit log are 1, 2, 3, ... in append order (strictly  *)
(* increasing, no gap, no repeat), and two calls in flight never hold the   *)
(* same id, however their steps interleave.                                 *)
C2_IdsGapFree ==
    /\ \A i \in 1 .. Len(accessLogs) : accessLogs[i].id = i
    /\ \A t, u \in Threads :
          (t # u /\ th[t].rowid # NoneInt /\ th[u].rowid # NoneInt)
              => th[t].rowid # th[u].rowid

\* Two appends interleaved: the one that holds the later timestamp committed first
C2_InterleavedWitness ==
    /\ Len(accessLogs) = 2
    /\ accessLogs[1].timestamp > accessLogs[2].timestamp
    /\ accessLogs[1].id = 1 /\ accessLogs[2].id = 2

(* C3: for every limit k, the recent-events query returns at most k events, *)
(* and they are exactly the last min(k, size) events of the id-ordered log. *)
(* (Stated for the limits k >= 0: no result has fewer than 0 events; and    *)
(* for the queries that succeed.)                                           *)
C3_RecentIsSuffix ==
    Readable => \A args \in LogsArgs :
        LET k == Get(args, "limit", 100)
            logs == get_access_logs(args).body.logs
            size == Len(accessLogs)
            n == Min(k, size)
        IN  k >= 0 =>
               /\ Len(logs) <= k
               /\ {logs[i].id : i \in 1 .. Len(logs)} = (size - n + 1) .. size

(* C4: the recent-events query returns events in descending timestamp order, *)
(* and of two events with the same timestamp the one with the larger id      *)
(* comes first.                                                              *)
(* (Stated for the states in which the store can be read.)                   *)
C4_TiesLaterFirst ==
    Readable => \A args \in LogsArgs :
        LET logs == get_access_logs(args).body.logs
        IN  \A i \in 1 .. Len(logs) - 1 :
               \/ logs[i].timestamp > logs[i + 1].timestamp
               \/ /\ logs[i].timestamp = logs[i + 1].timestamp
                  /\ logs[i].id > logs[i + 1].id

(* C5: a failed identity lookup does not abort ingestion.  A CARD call whose *)
(* card matched no identity appends an entry with no identity reference, a   *)
(* FACE call whose id matched no identity appends an entry that references   *)
(* the supplied id, and both answer with the user name "Unknown User".       *)
C5_LookupFailureStillLogged ==
    /\ \A t \in Threads :
          (th[t].pc = "respond" /\ ~Found(th[t].userInfo)) =>
              LET row == accessLogs[th[t].rowid]
              IN  /\ row.accessMethod = th[t].method
                  /\ th[t].method = CARD => row.userId = NoneInt
                  /\ th[t].method = FACE => row.userId = th[t].data.userId
    /\ (AccessOk /\ ~Found(out.call.userInfo)) =>
          LET row == accessLogs[out.call.rowid]
          IN  /\ out.body.userName = "Unknown User"
              /\ out.kind = CARD => (row.userId = NoneInt /\ out.body.userId = NoneInt)
              /\ out.kind = FACE => (row.userId = out.call.data.userId
                                     /\ out.body.userId = out.call.data.userId)

\* An unmatched CARD call has been answered, after an unmatched FACE call was
\* logged with the id it supplied
C5_UnknownWitness ==
    /\ AccessOk /\ out.kind = CARD /\ ~Found(out.call.userInfo)
    /\ out.body.userName = "Unknown User"
    /\ accessLogs[out.call.rowid].userId = NoneInt
    /\ \E i \in 1 .. Len(accessLogs) :
          /\ accessLogs[i].accessMethod = FACE
          /\ accessLogs[i].userId # NoneInt
          /\ ~Found(getUserInfo(accessLogs[i].userId))

\* A payload that lacks one of the required fields (no payload lacks them all)
Lacks(data, required) == \E field \in required : field \notin DOMAIN data

Stores == <<users, employeePhotos, studentPhotos, faceTemplates, accessLogs, logSeq, writeLock, th>>

(* C6: a face or card submission that lacks a required field is rejected as *)
(* a validation failure (HTTP 400) and changes neither the audit log nor    *)
(* the identity store.                                                      *)
C6_MalformedRejected ==
    [][ \A t \in Threads :
          /\ \A data \in FacePayloads :
                (Lacks(data, {"userId", "accessGranted"}) /\ submit_face_access(t, data))
                    => (out'.status = 400 /\ out'.kind = FACE /\ UNCHANGED Stores)
          /\ \A data \in CardPayloads :
                (Lacks(data, {"cardNumber", "accessGranted"}) /\ submit_card_access(t, data))
                    => (out'.status = 400 /\ out'.kind = CARD /\ UNCHANGED Stores) ]_vars

\* A malformed submission was rejected while the store held users and entries
C6_RejectedWitness ==
    /\ out.status = 400 /\ out.kind \in {FACE, CARD}
    /\ Len(accessLogs) > 0 /\ Len(users) > 0

(* C7: the response of an access-decision call carries the timestamp and the *)
(* device id stored in the audit entry the call appended.                    *)
C7_ResponseEchoesStored ==
    AccessOk =>
        /\ out.body.timestamp = accessLogs[out.call.rowid].timestamp
        /\ out.body.deviceId = accessLogs[out.call.rowid].deviceId

\* The range filter of the contract: inclusive on both bounds, open-ended with
\* one bound, everything with none
InRange(args, timestamp) ==
    /\ "StartTime" \in DOMAIN args => timestamp >= args.StartTime
    /\ "EndTime" \in DOMAIN args => timestamp <= args.EndTime

Expected(args) ==
    {accessLogs[i].id : i \in {i \in 1 .. Len(accessLogs) : InRange(args, accessLogs[i].timestamp)}}

TextRecNos(args) ==
    LET lines == getOfflineAccessRecords(args).body.lines
    IN  {lines[j].value : j \in {j \in 1 .. Len(lines) : lines[j].key = "RecNo"}}

JsonRecNos(args) ==
    LET records == getOfflineAccessRecordsJson(args).body.records
    IN  {records[i].RecNo.n : i \in 1 .. Len(records)}

(* C8: in the text endpoint and in the JSON endpoint alike, a range query    *)
(* (no count cap) returns the entries with start <= timestamp <= end when    *)
(* both bounds are given, those on the open side of the one bound given,     *)
(* and every entry when none is given.                                       *)
(* (Stated for the states in which the store can be read.)                   *)
C8_RangeFilterBothEndpoints ==
    Readable =>
    /\ \A args \in Ranges(Find) :
          TextRecNos(args) = {ToString(id) : id \in Expected(args)}
    /\ \A args \in Ranges(NoData) :
          JsonRecNos(args) = Expected(args)

\* The audit entry a record of either encoding was made from
EntryOf(recNo) == accessLogs[recNo]
EntryOfText(recNo) ==
    accessLogs[CHOOSE i \in 1 .. Len(accessLogs) : ToString(accessLogs[i].id) = recNo]

StatusErrorCodeAgree(result, isStatus1, isStatus0, isError0, isError1) ==
    /\ (result = GRANTED) <=> isStatus1
    /\ isStatus1 <=> isError0
    /\ (result = DENIED) <=> isStatus0
    /\ isStatus0 <=> isError1

JsonStatusErrorCode(rec) ==
    StatusErrorCodeAgree(EntryOf(rec.RecNo.n).result,
                         rec.Status = IntV(1), rec.Status = IntV(0),
                         rec.ErrorCode = IntV(0), rec.ErrorCode = IntV(1))

TextStatusErrorCode(recLines) ==
    \E recNo \in LineValues(recLines, "RecNo") :
        StatusErrorCodeAgree(EntryOfText(recNo).result,
                             LineValues(recLines, "Status") = {"1"},
                             LineValues(recLines, "Status") = {"0"},
                             LineValues(recLines, "ErrorCode") = {"0"},
                             LineValues(recLines, "ErrorCode") = {"1"})

(* C9: in every record of the text and of the JSON encoding, the entry is   *)
(* GRANTED exactly when Status=1 and exactly when ErrorCode=0, and DENIED   *)
(* exactly when Status=0 and exactly when ErrorCode=1.                      *)
(* (Stated for the states in which the store can be read.)                   *)
C9_StatusErrorCode ==
    Readable =>
    /\ \A args \in {NoData, With(NoData, "Count", 1)} :
          \A rec \in Range(getOfflineAccessRecordsJson(args).body.records) :
              JsonStatusErrorCode(rec)
    /\ \A args \in {Find, With(Find, "count", 1)} :
          LET body == getOfflineAccessRecords(args).body
          IN  \A i \in 0 .. body.found - 1 :
                 TextStatusErrorCode(LinesOf(body.lines, i))

\* Both encodings hold a granted and a denied entry
C9_BothResultsWitness ==
    /\ Readable
    /\ \E i \in 1 .. Len(accessLogs) : accessLogs[i].result = GRANTED
    /\ \E i \in 1 .. Len(accessLogs) : accessLogs[i].result = DENIED
    /\ getOfflineAccessRecords(Find).body.found = 2
    /\ getOfflineAccessRecordsJson(NoData).body.found = 2

IdentityAbsent(recNo) == ~Found(JoinUser(EntryOf(recNo).userId))

FieldSet == Range(Fields)

Keys(recLines) == [j \in 1 .. Len(recLines) |-> recLines[j].key]

DefaultsInJson(rec) ==
    /\ rec.CardNo = StrV("")
    /\ rec.CardName = StrV("Unknown")
    /\ rec.UserID = StrV("Unknown")

(* What the two encodings do with the same record: both contain every field *)
(* of the external schema.  The text encoding renders exactly one line per   *)
(* field and omits none, because the defaults are substituted before its     *)
(* `value is not None` test; in both encodings CardNo, CardName and UserID    *)
(* carry "", "Unknown" and "Unknown" when the identity is absent.             *)
(* (Stated for the states in which the store can be read.)                   *)
EveryFieldInBothEncodings ==
    Readable =>
    LET records == getOfflineAccessRecordsJson(NoData).body.records
        lines == getOfflineAccessRecords(Find).body.lines
    IN  \A i \in 1 .. Len(records) :
           LET rec == records[i]
               recLines == LinesOf(lines, i - 1)
           IN  /\ DOMAIN rec = FieldSet
               /\ \A key \in FieldSet : rec[key] # NullV
               /\ Keys(recLines) = Fields
               /\ LineValues(recLines, "RecNo") = {ToString(rec.RecNo.n)}
               /\ IdentityAbsent(rec.RecNo.n) =>
                     /\ DefaultsInJson(rec)
                     /\ LineValues(recLines, "CardNo") = {""}
                     /\ LineValues(recLines, "CardName") = {"Unknown"}
                     /\ LineValues(recLines, "UserID") = {"Unknown"}

(* C10: for the same record the text encoding omits every field whose       *)
(* value is null, while the JSON encoding contains it with its default: for  *)
(* a record whose identity is absent (CardNo, CardName and UserID are null   *)
(* in the query result) the text encoding renders no line for these three    *)
(* fields, and the JSON encoding holds them as "", "Unknown" and "Unknown".  *)
(* (Stated for the states in which the store can be read.)                   *)
C10_TextOmitsNullFields ==
    Readable =>
    LET records == getOfflineAccessRecordsJson(NoData).body.records
        lines == getOfflineAccessRecords(Find).body.lines
    IN  \A i \in 1 .. Len(records) :
           IdentityAbsent(records[i].RecNo.n) =>
               /\ DefaultsInJson(records[i])
               /\ \A key \in {"CardNo", "CardName", "UserID"} :
                     LineCount(LinesOf(lines, i - 1), key) = 0

\* Both encodings hold a record without identity and a record with one
AbsentIdentityInBothEncodings ==
    Readable /\
    LET records == getOfflineAccessRecordsJson(NoData).body.records
    IN  /\ getOfflineAccessRecords(Find).body.found = 2
        /\ \E i \in 1 .. Len(records) : IdentityAbsent(records[i].RecNo.n)
        /\ \E i \in 1 .. Len(records) : ~IdentityAbsent(records[i].RecNo.n)

----------------------------------------------------------------------------
(* Enrollment claims *)

Add == [action |-> "add"]

\* The request names an identity of the Identity Store
NamesExisting(data) ==
    /\ "userId" \in DOMAIN data
    /\ "userName" \in DOMAIN data
    /\ ParseInt(data.userId).raised = ""
    /\ Found(getUserInfo(ParseInt(data.userId).n))

TemplatesOf(data) == Get(data, "faceTemplates", <<>>)
PhotosOf(data) == Get(data, "photos", <<>>)

OverLimit(data) ==
    Len(TemplatesOf(data)) > MaxFaceTemplates \/ Len(PhotosOf(data)) > MaxPhotos

LimitExceeded(response) ==
    /\ response.status = 400
    /\ response.body.error \in {"Maximum 20 face templates allowed",
                                "Maximum 5 photos allowed"}

\* The request passed the checks of the persisting entry point: it is not
\* answered yet, and its templates are about to be stored
GoesOnToStore(response) == response = NoResponse

\* C11: an enrollment request for an existing identity with more than 20
\* templates or more than 5 photos is rejected with a limit-exceeded failure
\* by either entry point, and writes no faceTemplates row: the persisting
\* entry point answers it before it stores anything.
\* (Stated for the states in which the store can be read.)
C11_OverLimitRejected ==
    Readable => \A data \in EnrollPayloads :
        NamesExisting(data) /\ OverLimit(data) =>
            /\ LimitExceeded(enrollFaceJson(data))
            /\ LimitExceeded(manageFaceInfoResult(Add, data))
            /\ ~GoesOnToStore(manageFaceInfoResult(Add, data))

\* Row i of an enrollment holds template i, with photo i or ""
Paired(rows, data) ==
    /\ Len(rows) = Len(TemplatesOf(data))
    /\ \A i \in 1 .. Len(rows) :
         /\ rows[i].faceTemplate = TemplatesOf(data)[i]
         /\ rows[i].photoData = IF i <= Len(PhotosOf(data))
                                THEN PhotosOf(data)[i] ELSE ""

\* C12: a valid enrollment through POST /cgi-bin/FaceInfoManager.cgi?action=add
\* (existing identity, at most 20 templates, at most 5 photos) succeeds: it
\* passes the checks and goes on to store, its commit stores one row per
\* template paired with the photo of the same index or "", and its answer is
\* 200 with the stored counts.
\* (Stated for the states in which the store can be read.)
C12_ValidEnrollmentStored ==
    Readable => \A data \in EnrollPayloads, now \in Now :
        NamesExisting(data) /\ ~OverLimit(data) =>
            LET rows == TemplateRows(ParseInt(data.userId).n, data.userName,
                                     TemplatesOf(data), PhotosOf(data), now)
                response == addFaceTemplateStored(data, now)
            IN  /\ GoesOnToStore(manageFaceInfoResult(Add, data))
                /\ response.status = 200
                /\ Paired(rows, data)
                /\ response.body.templatesCount = Len(TemplatesOf(data))
                /\ response.body.photosCount = Len(PhotosOf(data))

Accepts(response) == response.status = 200

\* The failure kind a rejection reports
FailureKind(response) ==
    CASE response.status = 404 -> "not found"
      [] LimitExceeded(response) -> "limit exceeded"
      [] response.status = 400 /\ response.body.error = "Invalid userId format"
           -> "invalid id"
      [] response.status = 400
         /\ response.body.error \in {"No JSON data provided",
                                     "Missing required field"}
           -> "missing field"
      [] OTHER -> "internal error"

\* C13: the two enrollment entry points validate alike: for every request and
\* every store, one accepts exactly when the other does (the persisting one
\* goes on to store exactly when the log-only one answers 200), and both
\* report the same failure kind on rejection.
\* (Stated for the states in which the store can be read.)
C13_SameValidation ==
    Readable => \A data \in EnrollPayloads :
        LET persisting == manageFaceInfoResult(Add, data)
            logOnly == enrollFaceJson(data)
        IN  /\ GoesOnToStore(persisting) <=> Accepts(logOnly)
            /\ ~Accepts(logOnly) => FailureKind(persisting) = FailureKind(logOnly)

----------------------------------------------------------------------------
(* Audit-trail claims *)

\* Every row of the log before the step is the same row, at the same place,
\* after it
LogKept == /\ Len(accessLogs') >= Len(accessLogs)
           /\ \A i \in 1 .. Len(accessLogs) : accessLogs'[i] = accessLogs[i]

\* C14: the audit log is append-only: no step of the system (an append, a
\* registration, an enrollment request) changes or removes an access event
\* that was appended before it.
C14_AppendOnly == [][LogKept]_vars

\* The log holds two events (an append followed an append), an identity is
\* registered, and an enrollment request has just been answered
C14_LaterOperationsWitness ==
    /\ Len(accessLogs) >= 2
    /\ Len(users) >= 1
    /\ out.kind = "enroll"

\* The identities that carry the id userId in the Identity Store now
Registered(userId) == {j \in 1 .. Len(users) : users[j].id = userId}

\* C15: the name the recent-events query attaches to an event is joined at
\* read time: it is the name of the identity that has the event's identity
\* reference in the Identity Store when the query runs, and null, never
\* "Unknown User", when there is none; so a FACE event logged with an id
\* that was unregistered then reports the name of the identity registered
\* under that id since.
\* (Stated for the states in which the store can be read.)
C15_NameJoinedAtReadTime ==
    Readable => \A args \in LogsArgs :
        LET logs == get_access_logs(args).body.logs
        IN  \A i \in 1 .. Len(logs) :
                /\ Registered(logs[i].userId) = {} => logs[i].userName = NoneStr
                /\ \A j \in Registered(logs[i].userId) :
                       logs[i].userName = users[j].name
                /\ logs[i].userName # "Unknown User"

\* A registration has just returned an id that a FACE event already in the
\* log carries (its lookup at ingestion found nobody), and the query now
\* reports the event under the new identity's name
C15_RegisteredLaterWitness ==
    /\ Readable
    /\ out.kind = "register"
    /\ out.status = 201
    /\ \E i \in 1 .. Len(accessLogs) :
         /\ accessLogs[i].accessMethod = FACE
         /\ accessLogs[i].userId = out.body.userId
         /\ \E e \in Range(getAccessLogs(-1)) :
              e.id = accessLogs[i].id /\ e.userName = "Alice"

\* C16: every audit entry with method CARD has an identity reference that is
\* absent or the id of a registered identity.
C16_CardReferenceResolves ==
    \A i \in 1 .. Len(accessLogs) :
        accessLogs[i].accessMethod = CARD =>
            \/ accessLogs[i].userId = NoneInt
            \/ Registered(accessLogs[i].userId) # {}

\* The log holds a CARD entry for a registered card and a CARD entry for a
\* card nobody holds
C16_BothCardEntriesWitness ==
    /\ \E i \in 1 .. Len(accessLogs) :
         /\ accessLogs[i].accessMethod = CARD
         /\ Registered(accessLogs[i].userId) # {}
    /\ \E i \in 1 .. Len(accessLogs) :
         /\ accessLogs[i].accessMethod = CARD
         /\ accessLogs[i].userId = NoneInt

====
